---------------------------- MODULE Spec2Model ----------------------------
(***************************************************************************)
(* Funding-rate scanner: the scan of src/lib/scanner.ts (feed adapters,    *)
(* symbol normalisation, pairwise matching), and the trading build of the  *)
(* scanner (src/unnamed/part_002): its scan over CoinSwitch, Delta and     *)
(* CoinDCX with credentials and signing, and its two-legged trade behind   *)
(* the /api/trade route (src/unnamed/part_000).  Definitions of the        *)
(* trading build that share a name with one of src/lib/scanner.ts end in   *)
(* _002.                                                                   *)
(*                                                                         *)
(* Numbers are fixed point.  A funding rate r stands for r * 0.001 (so     *)
(* 0.004 is 4 and the default threshold 0.003 is 3), a mark price p for    *)
(* p price units, a spread percentage s for s * 0.0001 percent.  NaN is    *)
(* the value parseFloat gives for a missing or non-numeric field.          *)
(* A string is a sequence of one-character strings.                        *)
(***************************************************************************)
EXTENDS Integers, Sequences, FiniteSets, TLC

VARIABLES
    pc,            \* scan(): "idle" | "awaiting" | "done" | "thrown"
    minDiff,       \* scan()'s threshold argument
    includeDelta,  \* scan()'s includeDelta argument
    adapter,       \* per exchange: the promise of its load...Funding() call
    market,        \* per exchange: what its feed request is answered with
    result,        \* the ScanResult of the last scan that returned, or NoResult
    previous,      \* the ScanResult of the scan before that, or NoResult
    response,      \* what GET /api/scan answered for the last scan
    feeds,         \* every feed request the trading build's scan sent
    env,           \* process.env: per trading exchange, is the key / secret set
    tpc,           \* executeTrade(): "idle" | "executing" | "done"
    via,           \* how the trade request came in: "route" | "direct" | "none"
    req,           \* the TradeRequest
    legs,          \* per leg ("short", "long"): the promise of its placeOrder call
    orders,        \* every order request sent to an exchange, in sending order
    tradeResult,   \* the TradeResult of the last executeTrade, or NoResult
    tradeStatus,   \* HTTP status POST /api/trade answered, 0 if none
    normIn,        \* normalizeSymbol(): the raw symbol and exchange id given
    normOut        \* normalizeSymbol(): what it returned, per build

scanVars  == <<pc, minDiff, includeDelta, adapter, market, result, previous,
               response, feeds>>
tradeVars == <<env, tpc, via, req, legs, orders, tradeResult, tradeStatus>>
normVars  == <<normIn, normOut>>
vars      == <<pc, minDiff, includeDelta, adapter, market, result, previous,
               response, feeds,
               env, tpc, via, req, legs, orders, tradeResult, tradeStatus,
               normIn, normOut>>

---------------------------------------------------------------------------
(* Bounds of the model *)

\* funding rates range over -MaxNegRate .. MaxRate (units of 0.001)
MaxRate == 4
MaxNegRate == 2
\* thresholds range over 0 .. MaxThreshold (units of 0.001)
MaxThreshold == 3
\* trade quantity and leverage range over -1 .. MaxQuantity
MaxQuantity == 1
\* raw symbols given to normalizeSymbol: up to MaxSymLen characters, then
\* one of the suffixes
MaxSymLen == 3
\* calls of normalizeSymbol per build with the same arguments
MaxCalls == 2

Rates == (0 - MaxNegRate) .. MaxRate
Thresholds == 0 .. MaxThreshold

---------------------------------------------------------------------------
(* Values *)

\* a number that is no rate, price or threshold of the model stands for NaN
NaN == 0 - 1000000
NoResult == [kind |-> "none"]
\* null, as opposed to any string (a string holds one-character elements only)
Null == <<"null">>
\* undefined, where a string is expected: a field the record does not have
Undefined == <<"undefined">>

IsNaN(x) == x = NaN

---------------------------------------------------------------------------
(* Strings *)

LowerCase == <<"a","b","c","d","e","f","g","h","i","j","k","l","m",
               "n","o","p","q","r","s","t","u","v","w","x","y","z">>
UpperCase == <<"A","B","C","D","E","F","G","H","I","J","K","L","M",
               "N","O","P","Q","R","S","T","U","V","W","X","Y","Z">>
\* characters in UTF-16 code unit order, as far as symbols use them
CodeOrder == <<"-","0","1","2","3","4","5","6","7","8","9">> \o UpperCase
                 \o <<"_">> \o LowerCase

toUpperCaseChar(c) ==
    IF \E i \in 1..26 : LowerCase[i] = c
    THEN UpperCase[CHOOSE i \in 1..26 : LowerCase[i] = c]
    ELSE c

toUpperCase(s) == [i \in 1..Len(s) |-> toUpperCaseChar(s[i])]

\* s.replace(/c/g, "")
removeAll(s, c) == SelectSeq(s, LAMBDA x : x # c)

startsWith(s, p) == Len(s) >= Len(p) /\ SubSeq(s, 1, Len(p)) = p
endsWith(s, p) == Len(s) >= Len(p) /\ SubSeq(s, Len(s) - Len(p) + 1, Len(s)) = p
includes(s, c) == \E i \in 1..Len(s) : s[i] = c

CodeOf(c) == CHOOSE i \in 1..Len(CodeOrder) : CodeOrder[i] = c

\* a < b for the default Array.prototype.sort() order (UTF-16 code units)
RECURSIVE StrLess(_, _)
StrLess(a, b) ==
    IF b = <<>> THEN FALSE
    ELSE IF a = <<>> THEN TRUE
    ELSE IF Head(a) # Head(b) THEN CodeOf(Head(a)) < CodeOf(Head(b))
    ELSE StrLess(Tail(a), Tail(b))

USD  == <<"U","S","D">>
USDT == <<"U","S","D","T">>
USDC == <<"U","S","D","C">>

---------------------------------------------------------------------------
(* Symbol normalisation *)

\* the cleaned symbol returned whatever it ends in
normalizeSymbolAny(sym, exchange) ==
    removeAll(removeAll(toUpperCase(sym), "-"), "_")

\* src/lib/scanner.ts
normalizeSymbol(sym, exchange) ==
    LET s == removeAll(removeAll(toUpperCase(sym), "-"), "_")
        inverse(x) == endsWith(x, USD) /\ ~endsWith(x, USDT) /\ ~endsWith(x, USDC)
    IN  IF exchange = "CoinDCX"
        THEN LET t == IF startsWith(s, <<"B">>) THEN Tail(s) ELSE s
             IN  IF ~endsWith(t, USDT) THEN Null ELSE t
        ELSE IF exchange = "Delta"
        THEN LET t == IF inverse(s) THEN s \o <<"T">> ELSE s
             IN  IF ~endsWith(t, USDT) THEN Null ELSE t
        ELSE IF inverse(s) THEN Null
        ELSE IF ~endsWith(s, USDT) THEN Null ELSE s

\* src/unnamed/part_002, the build with CoinSwitch
normalizeSymbol_002(sym, exchange) ==
    LET s == removeAll(removeAll(toUpperCase(sym), "-"), "_")
        inverse(x) == endsWith(x, USD) /\ ~endsWith(x, USDT) /\ ~endsWith(x, USDC)
        t == IF exchange = "Delta"
             THEN (IF inverse(s) THEN s \o <<"T">> ELSE s)
             ELSE IF exchange = "CoinSwitch"
             THEN (IF startsWith(s, <<"F">>) \/ startsWith(s, <<"B">>)
                   THEN Tail(s) ELSE s)
             ELSE IF exchange = "CoinDCX"
             THEN (IF startsWith(s, <<"B">>) THEN Tail(s) ELSE s)
             ELSE s
    IN  IF ~endsWith(t, USDT) THEN Null ELSE t

---------------------------------------------------------------------------
(* JavaScript objects: the keys in insertion order, each with its value *)

EmptyObj == <<>>

Keys(obj) == [i \in 1..Len(obj) |-> obj[i][1]]
Has(obj, k) == \E i \in 1..Len(obj) : obj[i][1] = k
Get(obj, k) == obj[CHOOSE i \in 1..Len(obj) : obj[i][1] = k][2]

\* obj[k] = v: a key already there keeps its place
Put(obj, k, v) ==
    IF Has(obj, k)
    THEN [i \in 1..Len(obj) |-> IF obj[i][1] = k THEN <<k, v>> ELSE obj[i]]
    ELSE Append(obj, <<k, v>>)

---------------------------------------------------------------------------
(* Numbers *)

Abs(x) == IF x < 0 THEN 0 - x ELSE x

\* Math.abs(a - b)
absDiff(a, b) == IF IsNaN(a) \/ IsNaN(b) THEN NaN ELSE Abs(a - b)

\* a >= b, false when either side is NaN
GreaterEq(a, b) == ~IsNaN(a) /\ ~IsNaN(b) /\ a >= b

\* a > b, false when either side is NaN
Greater(a, b) == ~IsNaN(a) /\ ~IsNaN(b) /\ a > b

\* x || 0
orZero(x) == IF IsNaN(x) THEN 0 ELSE x

\* Math.round(n / d) for n >= 0, d > 0
roundDiv(n, d) == (2 * n + d) \div (2 * d)

---------------------------------------------------------------------------
(* What an exchange answers to a feed request *)

\* one record of a ticker response
RawRecord(sym, hasRate, rate, next, price, perpetual) ==
    [symbol |-> sym, hasRate |-> hasRate, rate |-> rate, next |-> next,
     price |-> price, perpetual |-> perpetual]

\* kinds of fetch outcome: the request timed out (abort), the connection
\* failed, the status was not 2xx, the body was no JSON of the expected
\* shape, or the body parsed into records
FailureKinds == {"timeout", "network", "http", "garbage"}
Failed(kind) == [kind |-> kind, records |-> <<>>]
Answered(records) == [kind |-> "ok", records |-> records]

Fulfilled(value) == [status |-> "fulfilled", value |-> value]
Rejected(reason) == [status |-> "rejected", value |-> EmptyObj, reason |-> reason]
Pending == [status |-> "pending"]

FundingEntry(rate, next, price, sym) ==
    [rate |-> rate, next_funding |-> next, mark_price |-> price,
     original_symbol |-> sym]

---------------------------------------------------------------------------
(* Feed adapters *)

\* Delta reports percentages: raw decimal = reported / DeltaPercentDivisor
DeltaPercentDivisor == 100

RECURSIVE binanceEntries(_, _)
binanceEntries(records, funding) ==
    IF records = <<>> THEN funding
    ELSE LET x == Head(records)
             rate == IF x.hasRate THEN x.rate ELSE NaN
         IN  IF includes(x.symbol, "_") \/ x.next = 0
             THEN binanceEntries(Tail(records), funding)
             ELSE binanceEntries(Tail(records),
                     Put(funding, x.symbol,
                         FundingEntry(rate, x.next, x.price, x.symbol)))

\* sym.includes("_") throws a TypeError on a record that has no symbol
loadBinanceFunding(outcome) ==
    IF outcome.kind # "ok" THEN Rejected(outcome.kind)
    ELSE IF \E i \in 1..Len(outcome.records) : outcome.records[i].symbol = Undefined
    THEN Rejected("TypeError")
    ELSE Fulfilled(binanceEntries(outcome.records, EmptyObj))

RECURSIVE bybitEntries(_, _)
bybitEntries(records, funding) ==
    IF records = <<>> THEN funding
    ELSE LET x == Head(records)
         IN  IF ~x.hasRate \/ x.next = 0
             THEN bybitEntries(Tail(records), funding)
             ELSE bybitEntries(Tail(records),
                     Put(funding, x.symbol,
                         FundingEntry(x.rate, x.next, x.price, x.symbol)))

loadBybitFunding(outcome) ==
    IF outcome.kind # "ok" THEN Rejected(outcome.kind)
    ELSE Fulfilled(bybitEntries(outcome.records, EmptyObj))

\* the reported percentage stored as it is
rawRateUnscaled(deltaRate) == deltaRate

\* deltaRate / 100
rawRate(deltaRate) ==
    IF IsNaN(deltaRate) THEN NaN ELSE deltaRate \div DeltaPercentDivisor

RECURSIVE deltaEntries(_, _)
deltaEntries(records, funding) ==
    IF records = <<>> THEN funding
    ELSE LET item == Head(records)
         IN  IF ~item.perpetual \/ ~item.hasRate
             THEN deltaEntries(Tail(records), funding)
             ELSE deltaEntries(Tail(records),
                     Put(funding, item.symbol,
                         FundingEntry(rawRate(item.rate), 0, item.price,
                                      item.symbol)))

loadDeltaFunding(outcome) ==
    IF outcome.kind # "ok" THEN Rejected(outcome.kind)
    ELSE Fulfilled(deltaEntries(outcome.records, EmptyObj))

RECURSIVE coindcxEntries(_, _)
coindcxEntries(records, funding) ==
    IF records = <<>> THEN funding
    ELSE LET d == Head(records)
         IN  IF ~d.hasRate
             THEN coindcxEntries(Tail(records), funding)
             ELSE coindcxEntries(Tail(records),
                     Put(funding, d.symbol,
                         FundingEntry(d.rate, 0, d.price, d.symbol)))

\* the one adapter that catches its own failures
loadCoinDCXFunding(outcome) ==
    IF outcome.kind # "ok" THEN Fulfilled(EmptyObj)
    ELSE Fulfilled(coindcxEntries(outcome.records, EmptyObj))

load(ex, outcome) ==
    CASE ex = "Binance" -> loadBinanceFunding(outcome)
      [] ex = "Bybit"   -> loadBybitFunding(outcome)
      [] ex = "CoinDCX" -> loadCoinDCXFunding(outcome)
      [] ex = "Delta"   -> loadDeltaFunding(outcome)

---------------------------------------------------------------------------
(* Aggregation and matching *)

\* neighbouring elements only
combinationsAdjacent(arr, k) ==
    [i \in 1..(Len(arr) - 1) |-> <<arr[i], arr[i + 1]>>]

RECURSIVE combinations(_, _)
combinations(arr, k) ==
    IF k = 0 THEN << <<>> >>
    ELSE IF arr = <<>> THEN <<>>
    ELSE LET first == Head(arr)
             rest == Tail(arr)
             sub == combinations(rest, k - 1)
             withFirst == [i \in 1..Len(sub) |-> <<first>> \o sub[i]]
             withoutFirst == combinations(rest, k)
         IN  withFirst \o withoutFirst

\* the entry of the raw symbol processed first kept on a collision
RECURSIVE normalisedMapFirst(_, _, _)
normalisedMapFirst(funding, ex, acc) ==
    IF funding = <<>> THEN acc
    ELSE LET rawSym == Head(funding)[1]
             data == Head(funding)[2]
             norm == normalizeSymbol(rawSym, ex)
         IN  IF norm # Null /\ norm # <<>> /\ ~Has(acc, norm)
             THEN normalisedMapFirst(Tail(funding), ex, Put(acc, norm, data))
             ELSE normalisedMapFirst(Tail(funding), ex, acc)

\* exchangeData[ex]: canonical symbol -> entry, built from the adapter's map
RECURSIVE normalisedMap(_, _, _)
normalisedMap(funding, ex, acc) ==
    IF funding = <<>> THEN acc
    ELSE LET rawSym == Head(funding)[1]
             data == Head(funding)[2]
             norm == normalizeSymbol(rawSym, ex)
         IN  IF norm # Null /\ norm # <<>>
             THEN normalisedMap(Tail(funding), ex, Put(acc, norm, data))
             ELSE normalisedMap(Tail(funding), ex, acc)

\* Object.keys(exchangeData)
exchangesList(withDelta) ==
    IF withDelta THEN <<"Binance", "Bybit", "CoinDCX", "Delta">>
    ELSE <<"Binance", "Bybit", "CoinDCX">>

ExchangeNames == {"Binance", "Bybit", "CoinDCX", "Delta"}

\* exchangeData, from what the four promises resolved to
exchangeDataOf(values, withDelta) ==
    [Binance |-> normalisedMap(values["Binance"], "Binance", EmptyObj),
     Bybit   |-> normalisedMap(values["Bybit"], "Bybit", EmptyObj),
     CoinDCX |-> normalisedMap(values["CoinDCX"], "CoinDCX", EmptyObj),
     Delta   |-> IF withDelta
                 THEN normalisedMap(values["Delta"], "Delta", EmptyObj)
                 ELSE EmptyObj]

Range(seq) == {seq[i] : i \in 1..Len(seq)}

allSymbolsOf(exchangeData, exList) ==
    UNION {Range(Keys(exchangeData[ex])) : ex \in Range(exList)}

\* [...allSymbols].sort()
RECURSIVE sortedSymbols(_)
sortedSymbols(syms) ==
    IF syms = {} THEN <<>>
    ELSE LET least == CHOOSE a \in syms : \A b \in syms \ {a} : StrLess(a, b)
         IN  <<least>> \o sortedSymbols(syms \ {least})

\* the test with the comparison turned round, and with the boundary left out
clearsBelow(diff, threshold) == GreaterEq(threshold, diff)
clearsStrictly(diff, threshold) == Greater(diff, threshold)

\* the diff >= minDiff test of one pair
clears(diff, threshold) == GreaterEq(diff, threshold)

\* the exchange with the lower rate shorted
shortOfLower(e1, e2, r1, r2) == IF Greater(r1, r2) THEN e2 ELSE e1

\* which of the pair is shorted
shortOf(e1, e2, r1, r2) == IF Greater(r1, r2) THEN e1 ELSE e2
\* the long side decided by its own comparison
longOfStrict(e1, e2, r1, r2) == IF Greater(r2, r1) THEN e1 ELSE e2

longOf(e1, e2, r1, r2) == IF Greater(r1, r2) THEN e2 ELSE e1

\* the opportunity pushed for the pair (e1, e2) of sym
Opportunity(sym, e1, e2, available) ==
    LET r1 == Get(available, e1).rate
        r2 == Get(available, e2).rate
        price1 == orZero(Get(available, e1).mark_price)
        price2 == orZero(Get(available, e2).mark_price)
        priceDiff == Abs(price1 - price2)
    IN  [symbol |-> sym,
         exchange1 |-> e1,
         exchange2 |-> e2,
         original_symbol1 |-> Get(available, e1).original_symbol,
         original_symbol2 |-> Get(available, e2).original_symbol,
         rate1 |-> r1,
         rate2 |-> r2,
         diff |-> absDiff(r1, r2),
         short_exchange |-> shortOf(e1, e2, r1, r2),
         long_exchange |-> longOf(e1, e2, r1, r2),
         price1 |-> price1,
         price2 |-> price2,
         price_diff |-> priceDiff,
         spread_pct |-> IF price1 > 0 /\ price2 > 0
                        THEN roundDiv(2000000 * priceDiff, price1 + price2)
                        ELSE 0]

\* the exchanges of exList that carry sym, each with its entry
RECURSIVE availableFor(_, _, _)
availableFor(sym, exchangeData, exList) ==
    IF exList = <<>> THEN EmptyObj
    ELSE LET ex == Head(exList)
             others == availableFor(sym, exchangeData, Tail(exList))
         IN  IF Has(exchangeData[ex], sym)
             THEN << <<ex, Get(exchangeData[ex], sym)>> >> \o others
             ELSE others

\* the opportunities of one symbol, in the order of its pairs
RECURSIVE pairOpportunities(_, _, _, _)
pairOpportunities(sym, pairs, available, threshold) ==
    IF pairs = <<>> THEN <<>>
    ELSE LET e1 == Head(pairs)[1]
             e2 == Head(pairs)[2]
             o == Opportunity(sym, e1, e2, available)
             others == pairOpportunities(sym, Tail(pairs), available, threshold)
         IN  IF clears(o.diff, threshold) THEN <<o>> \o others ELSE others

RECURSIVE collect(_, _, _, _)
collect(syms, exchangeData, exList, threshold) ==
    IF syms = <<>> THEN <<>>
    ELSE LET sym == Head(syms)
             available == availableFor(sym, exchangeData, exList)
             others == collect(Tail(syms), exchangeData, exList, threshold)
         IN  IF Len(available) < 2 THEN others
             ELSE pairOpportunities(sym, combinations(Keys(available), 2),
                                    available, threshold) \o others

\* the comparator with its operands swapped
byDiffAsc(a, b) == a.diff - b.diff

\* the comparator of opportunities.sort: negative when a goes first
byDiffDesc(a, b) == b.diff - a.diff

\* x put into a sorted list, behind every element that does not go after it
RECURSIVE insertSorted(_, _)
insertSorted(sorted, x) ==
    IF sorted = <<>> THEN <<x>>
    ELSE IF byDiffDesc(Head(sorted), x) <= 0
         THEN <<Head(sorted)>> \o insertSorted(Tail(sorted), x)
         ELSE <<x>> \o sorted

\* opportunities.sort((a, b) => b.diff - a.diff), a stable sort
RECURSIVE sortOpportunities(_)
sortOpportunities(opps) ==
    IF opps = <<>> THEN <<>>
    ELSE insertSorted(sortOpportunities(SubSeq(opps, 1, Len(opps) - 1)),
                      opps[Len(opps)])

\* what scan returns once the four promises resolved to values
ScanResult(values, threshold, withDelta) ==
    LET exList == exchangesList(withDelta)
        exchangeData == exchangeDataOf(values, withDelta)
        allSymbols == allSymbolsOf(exchangeData, exList)
        opportunities ==
            sortOpportunities(
                collect(sortedSymbols(allSymbols), exchangeData, exList, threshold))
    IN  [kind |-> "result",
         threshold_raw |-> threshold,
         exchange_counts |-> [ex \in Range(exList) |-> Len(exchangeData[ex])],
         total_symbols |-> Cardinality(allSymbols),
         opportunities |-> opportunities,
         count |-> Len(opportunities),
         include_delta |-> withDelta]

---------------------------------------------------------------------------
(* Raw symbols the exchanges list *)

ETHUSDT == <<"E","T","H","U","S","D","T">>
BTCUSDT == <<"B","T","C","U","S","D","T">>
ETHUSD == <<"E","T","H","U","S","D">>
BTCUSD == <<"B","T","C","U","S","D">>
B_ETH_USDT == <<"B","-","E","T","H","_","U","S","D","T">>
B_BTC_USDT == <<"B","-","B","T","C","_","U","S","D","T">>

\* how each exchange spells the ETH and the BTC perpetual
EthOn(ex) ==
    CASE ex = "CoinDCX" -> B_ETH_USDT
      [] ex = "Delta"   -> ETHUSD
      [] OTHER          -> ETHUSDT
BtcOn(ex) ==
    CASE ex = "CoinDCX" -> B_BTC_USDT
      [] ex = "Delta"   -> BTCUSD
      [] OTHER          -> BTCUSDT

\* the rate an exchange reports for a raw-decimal rate r
Reported(ex, r) == IF ex = "Delta" THEN r * DeltaPercentDivisor ELSE r

NotListed == NaN

\* a response listing ETH at rate e and BTC at rate b (NotListed: no record)
Listing(ex, e, b) ==
    Answered(
        (IF e = NotListed THEN <<>>
         ELSE <<RawRecord(EthOn(ex), TRUE, Reported(ex, e), 1, 100, TRUE)>>)
        \o
        (IF b = NotListed THEN <<>>
         ELSE <<RawRecord(BtcOn(ex), TRUE, Reported(ex, b), 1, 100, TRUE)>>))

---------------------------------------------------------------------------
(* scan(), the four feed requests in flight at once *)

NotStarted == [status |-> "none"]

ScanIdle ==
    /\ pc = "idle"
    /\ minDiff = 0
    /\ includeDelta = TRUE
    /\ adapter = [ex \in ExchangeNames |-> NotStarted]
    /\ result = NoResult
    /\ previous = NoResult
    /\ response = 0
    /\ feeds = <<>>

NoLegs == [short |-> NotStarted, long |-> NotStarted]

TradeIdle ==
    /\ tpc = "idle"
    /\ via = "none"
    /\ req = <<>>
    /\ legs = NoLegs
    /\ orders = <<>>
    /\ tradeResult = NoResult
    /\ tradeStatus = 0

NormIdle ==
    /\ normIn = <<>>
    /\ normOut = NotStarted

\* process.env as far as scan reads it: not at all
NoEnv == <<>>

\* the feed answers of the model: down in one of the four ways, an empty
\* listing, or ETH listed at the lowest or the highest rate
Outcome(ex, choice) ==
    CASE choice \in FailureKinds -> Failed(choice)
      [] choice = "empty"        -> Listing(ex, NotListed, NotListed)
      [] choice = "low"          -> Listing(ex, 0, NotListed)
      [] choice = "high"         -> Listing(ex, MaxRate, NotListed)

Init ==
    /\ ScanIdle
    /\ TradeIdle
    /\ NormIdle
    /\ env = NoEnv
    /\ \E f \in [ExchangeNames -> FailureKinds \cup {"empty", "low", "high"}] :
          market = [ex \in ExchangeNames |-> Outcome(ex, f[ex])]

values(adapters) ==
    [Binance |-> adapters["Binance"].value, Bybit |-> adapters["Bybit"].value,
     CoinDCX |-> adapters["CoinDCX"].value, Delta |-> adapters["Delta"].value]

\* GET /api/scan calls scan(threshold, includeDelta): every adapter is
\* called and runs up to its fetch
StartScan(t, d) ==
    /\ pc = "idle"
    /\ pc' = "awaiting"
    /\ minDiff' = t
    /\ includeDelta' = d
    /\ adapter' = [ex \in ExchangeNames |->
                      IF ex = "Delta" /\ ~d THEN Fulfilled(EmptyObj) ELSE Pending]
    /\ UNCHANGED <<market, result, previous, response, feeds>>
    /\ UNCHANGED <<tradeVars, normVars>>

\* the fetch of ex ends and its adapter settles; Promise.all rejects with
\* the first rejection and resolves once every promise is fulfilled, and
\* scan and the route run on from there
AdapterSettle(ex) ==
    /\ adapter[ex] = Pending
    /\ LET settled == load(ex, market[ex])
           after == [adapter EXCEPT ![ex] = settled]
       IN  /\ adapter' = after
           /\ IF pc = "awaiting" /\ settled.status = "rejected"
              THEN /\ pc' = "thrown"
                   /\ response' = 500
                   /\ UNCHANGED <<result, previous>>
              ELSE IF pc = "awaiting"
                      /\ \A e \in ExchangeNames : after[e].status = "fulfilled"
              THEN /\ pc' = "done"
                   /\ result' = ScanResult(values(after), minDiff, includeDelta)
                   /\ previous' = result
                   /\ response' = 200
              ELSE UNCHANGED <<pc, result, previous, response>>
    /\ UNCHANGED <<minDiff, includeDelta, market, feeds>>
    /\ UNCHANGED <<tradeVars, normVars>>

Next ==
    \/ \E t \in Thresholds, d \in BOOLEAN : StartScan(t, d)
    \/ \E ex \in ExchangeNames : AdapterSettle(ex)

Spec == Init /\ [][Next]_vars

---------------------------------------------------------------------------
(* scan() over a market where every feed answers: the matching engine *)

\* BTC is listed nowhere, on CoinDCX alone (at 0.001), or on CoinDCX and on
\* Delta (at the highest rate)
BtcListings == {"nowhere", "one", "two"}
BtcRate(ex, listing) ==
    CASE ex = "CoinDCX" /\ listing # "nowhere" -> 1
      [] ex = "Delta" /\ listing = "two"       -> MaxRate
      [] OTHER                                 -> NotListed

\* ETH is listed at any rate on Binance and Bybit, at the lowest
\* non-negative or the highest rate on CoinDCX and Delta, or not at all
EthRates(ex) ==
    IF ex \in {"Binance", "Bybit"} THEN Rates \cup {NotListed}
    ELSE {NotListed, 0, MaxRate}

InitMatch ==
    /\ ScanIdle
    /\ TradeIdle
    /\ NormIdle
    /\ env = NoEnv
    /\ \E e \in [ExchangeNames -> Rates \cup {NotListed}], b \in BtcListings :
          /\ \A ex \in ExchangeNames : e[ex] \in EthRates(ex)
          /\ market = [ex \in ExchangeNames |-> Listing(ex, e[ex], BtcRate(ex, b))]

\* one whole scan(t): the four adapters fulfil and the result is returned
MatchScan(t) ==
    /\ pc \in {"idle", "done"}
    /\ \A ex \in ExchangeNames : market[ex].kind = "ok"
    /\ LET after == [Binance |-> load("Binance", market["Binance"]),
                     Bybit   |-> load("Bybit", market["Bybit"]),
                     CoinDCX |-> load("CoinDCX", market["CoinDCX"]),
                     Delta   |-> load("Delta", market["Delta"])]
       IN  /\ adapter' = after
           /\ result' = ScanResult(values(after), t, TRUE)
    /\ previous' = result
    /\ pc' = "done"
    /\ minDiff' = t
    /\ includeDelta' = TRUE
    /\ response' = 200
    /\ UNCHANGED <<market, feeds>>
    /\ UNCHANGED <<tradeVars, normVars>>

NextMatch == \E t \in Thresholds : MatchScan(t)

SpecMatch == InitMatch /\ [][NextMatch]_vars

---------------------------------------------------------------------------
(* normalizeSymbol() of either build, called on its own *)

\* characters of the raw symbols: the contract-type prefixes, another
\* letter in both cases, the two separators
SymChars == {"B", "F", "T", "t", "-", "_"}

\* every string of at most n of these characters
RECURSIVE StringsUpTo(_)
StringsUpTo(n) ==
    IF n = 0 THEN {<<>>}
    ELSE LET shorter == StringsUpTo(n - 1)
         IN  shorter \cup {<<c>> \o str : c \in SymChars, str \in shorter}

Suffixes == {<<>>, USD, USDT, USDC, <<"u","s","d","t">>, <<"_","U","S","D","T">>}

RawSymbols ==
    {str \o suffix : str \in StringsUpTo(MaxSymLen), suffix \in Suffixes}
    \cup {ETHUSDT, BTCUSDT, ETHUSD, BTCUSD, B_ETH_USDT, B_BTC_USDT}

\* the exchange argument: the ids either build passes, or none
ExchangeIds == ExchangeNames \cup {"CoinSwitch", "undefined"}

InitNorm ==
    /\ ScanIdle
    /\ TradeIdle
    /\ env = NoEnv
    /\ market = [ex \in ExchangeNames |-> Listing(ex, NotListed, NotListed)]
    /\ \E sym \in RawSymbols, exchange \in ExchangeIds :
          normIn = [sym |-> sym, exchange |-> exchange]
    /\ normOut = [lib |-> <<>>, trading |-> <<>>]

\* normalizeSymbol(sym, exchange) of src/lib/scanner.ts is called
Normalize ==
    /\ Len(normOut.lib) < MaxCalls
    /\ normOut' = [normOut EXCEPT
                      !.lib = Append(@, normalizeSymbol(normIn.sym, normIn.exchange))]
    /\ UNCHANGED <<normIn, scanVars, tradeVars>>

\* normalizeSymbol(sym, exchange) of the trading build is called
Normalize_002 ==
    /\ Len(normOut.trading) < MaxCalls
    /\ normOut' = [normOut EXCEPT
                      !.trading =
                          Append(@, normalizeSymbol_002(normIn.sym, normIn.exchange))]
    /\ UNCHANGED <<normIn, scanVars, tradeVars>>

NextNorm ==
    \/ Normalize
    \/ Normalize_002

SpecNorm == InitNorm /\ [][NextNorm]_vars

\* a string normalizeSymbol may return: canonical, or null
Canonical(v) ==
    /\ endsWith(v, USDT)
    /\ \A i \in 1..Len(v) :
          /\ v[i] \notin {"-", "_"}
          /\ v[i] \notin Range(LowerCase)

Convention(ex, base) ==
    CASE ex = "CoinSwitch" -> base \o USDT
      [] ex = "Delta"      -> base \o USD
      [] ex = "CoinDCX"    -> <<"B", "-">> \o base \o <<"_">> \o USDT

\* base assets: some uppercase letters, and the two of the documentation
Bases ==
    {str \in StringsUpTo(MaxSymLen) : str # <<>> /\ Range(str) \subseteq {"B", "F", "T"}}
    \cup {<<"B","T","C">>, <<"E","T","H">>}

\* C13: a base asset spelled the CoinSwitch way (X USDT), the Delta way
\* (X USD) or the CoinDCX way (B-X_USDT) normalises to X USDT on that
\* exchange, BTCUSDT / BTCUSD / B-BTC_USDT to BTCUSDT among them.
C13_OneCanonicalSymbol ==
    (normOut # NotStarted /\ normIn.exchange \in {"CoinSwitch", "Delta", "CoinDCX"}) =>
        \A base \in Bases :
            normIn.sym = Convention(normIn.exchange, base) =>
                \A i \in 1..Len(normOut.trading) :
                    normOut.trading[i] = base \o USDT

---------------------------------------------------------------------------
(* Properties of scan() *)

Settled(ex) == adapter[ex].status \in {"fulfilled", "rejected"}

\* C1: the join of the feed adapters ends, and aggregation starts, only
\* once every adapter has settled; no failure ends it early.
C1_SettleAll ==
    pc \in {"done", "thrown"} => \A ex \in ExchangeNames : Settled(ex)

\* C2: whatever feeds fail, scan does not throw but returns a well-formed
\* ScanResult; with no working exchange it has no opportunities, count 0
\* and a status entry per exchange.
C2_NeverThrows ==
    pc \in {"done", "thrown"} =>
        /\ pc = "done"
        /\ response = 200
        /\ result.kind = "result"
        /\ result.count = Len(result.opportunities)
        /\ (\A ex \in ExchangeNames : market[ex].kind # "ok") =>
               /\ result.count = 0
               /\ "exchange_status" \in DOMAIN result

\* C8: of two scans of the same market, the one with the higher threshold
\* reports a subset of the other's opportunities, so no more of them.
C8_RaisingThreshold ==
    (pc = "done" /\ previous # NoResult) =>
        /\ previous.threshold_raw < result.threshold_raw =>
               /\ Range(result.opportunities) \subseteq Range(previous.opportunities)
               /\ result.count <= previous.count
        /\ result.threshold_raw < previous.threshold_raw =>
               /\ Range(previous.opportunities) \subseteq Range(result.opportunities)
               /\ previous.count <= result.count

\* a second scan with a higher threshold kept some opportunities and lost some
C8_Witness ==
    /\ pc = "done"
    /\ previous # NoResult
    /\ previous.threshold_raw < result.threshold_raw
    /\ 0 < result.count
    /\ result.count < previous.count

\* C9: the opportunities of a ScanResult are in non-increasing order of diff.
C9_SortedByDiff ==
    result # NoResult =>
        \A i \in 1..(Len(result.opportunities) - 1) :
            result.opportunities[i].diff >= result.opportunities[i + 1].diff

\* an ETH opportunity, collected after the BTC one, is reported before it
C9_Witness ==
    /\ result # NoResult
    /\ result.count >= 3
    /\ \E i, j \in 1..Len(result.opportunities) :
          /\ i < j
          /\ result.opportunities[i].symbol = ETHUSDT
          /\ result.opportunities[j].symbol = BTCUSDT
          /\ result.opportunities[i].diff > result.opportunities[j].diff

\* the normalised maps of the last scan
lastData == exchangeDataOf(values(adapter), includeDelta)

\* the exchanges whose normalised map carries sym
Carriers(data, sym) ==
    {ex \in Range(exchangesList(includeDelta)) : Has(data[ex], sym)}

\* the positions of the opportunities reported for sym
ReportedFor(sym) ==
    {i \in 1..Len(result.opportunities) : result.opportunities[i].symbol = sym}

\* C10: a pair of exchanges carrying a symbol is reported exactly when the
\* difference of its rates is at least the threshold; a symbol on exactly
\* two exchanges whose difference equals the threshold is reported once,
\* shorting the exchange with the higher rate.
C10_InclusiveThreshold ==
    pc = "done" =>
        LET data == lastData
        IN  \A sym \in {ETHUSDT, BTCUSDT} :
            LET on == Carriers(data, sym)
                hits == ReportedFor(sym)
                rate(ex) == Get(data[ex], sym).rate
            IN  \A a, b \in on :
                /\ a # b =>
                      ((\E i \in hits :
                            {result.opportunities[i].exchange1,
                             result.opportunities[i].exchange2} = {a, b})
                       <=> Abs(rate(a) - rate(b)) >= result.threshold_raw)
                /\ (/\ on = {a, b}
                    /\ rate(a) - rate(b) = result.threshold_raw
                    /\ result.threshold_raw > 0) =>
                      /\ Cardinality(hits) = 1
                      /\ \A i \in hits :
                            result.opportunities[i].short_exchange = a

\* rates 0.004 and 0.001 on exactly two exchanges, scanned at 0.003
C10_Witness ==
    /\ pc = "done"
    /\ result.threshold_raw = 3
    /\ LET data == lastData
       IN  \E a, b \in ExchangeNames :
             /\ Carriers(data, ETHUSDT) = {a, b}
             /\ a # b
             /\ Get(data[a], ETHUSDT).rate = 4
             /\ Get(data[b], ETHUSDT).rate = 1
             /\ \E i \in ReportedFor(ETHUSDT) :
                   result.opportunities[i].short_exchange = a

\* the rate an opportunity stores for one of its two exchanges
rateIn(o, ex) == IF ex = o.exchange1 THEN o.rate1 ELSE o.rate2

\* C11: in every opportunity the short exchange is the one of the pair
\* with the larger signed rate and the long exchange is the other one,
\* whatever the signs of the two rates; diff is |rate1 - rate2|.
C11_ShortIsHigherRate ==
    pc = "done" =>
        \A i \in 1..Len(result.opportunities) :
            LET o == result.opportunities[i]
            IN  /\ {o.short_exchange, o.long_exchange} = {o.exchange1, o.exchange2}
                /\ o.short_exchange # o.long_exchange
                /\ rateIn(o, o.short_exchange) >= rateIn(o, o.long_exchange)
                /\ o.rate1 > o.rate2 => o.short_exchange = o.exchange1
                /\ o.rate2 > o.rate1 => o.short_exchange = o.exchange2
                /\ o.diff = Abs(o.rate1 - o.rate2)

\* one result with a pair of two negative rates, a pair of two positive
\* rates and a pair of mixed signs, the second exchange shorted in one
C11_Witness ==
    /\ pc = "done"
    /\ \E i, j, k \in 1..Len(result.opportunities) :
          LET a == result.opportunities[i]
              b == result.opportunities[j]
              c == result.opportunities[k]
          IN  /\ a.rate1 < a.rate2 /\ a.rate2 < 0
              /\ a.short_exchange = a.exchange2
              /\ 0 < b.rate1 /\ b.rate1 < b.rate2
              /\ c.rate1 < 0 /\ 0 < c.rate2
              /\ c.short_exchange = c.exchange2

\* the rate the feed of ex reported for the raw symbol sym
reportedRate(ex, sym) ==
    LET records == market[ex].records
    IN  records[CHOOSE i \in 1..Len(records) : records[i].symbol = sym].rate

\* the factor between the rate an exchange reports and the raw decimal
scaleOf(ex) == IF ex = "Delta" THEN 100 ELSE 1

\* C14: the Delta adapter stores the reported rate divided by 100, every
\* other adapter stores the reported rate as it is, and the rates the
\* matching engine compares are those stored rates: the division is done
\* once.
C14_DeltaPercent ==
    pc = "done" =>
        /\ \A ex \in ExchangeNames :
              LET funding == adapter[ex].value
              IN  \A i \in 1..Len(funding) :
                      funding[i][2].rate * scaleOf(ex)
                          = reportedRate(ex, funding[i][1])
        /\ \A i \in 1..Len(result.opportunities) :
              LET o == result.opportunities[i]
              IN  /\ o.rate1 * scaleOf(o.exchange1)
                         = reportedRate(o.exchange1, o.original_symbol1)
                  /\ o.rate2 * scaleOf(o.exchange2)
                         = reportedRate(o.exchange2, o.original_symbol2)

\* Delta reports 100 times what Binance reports and the two are found equal
C14_Witness ==
    /\ pc = "done"
    /\ \E i \in 1..Len(result.opportunities) :
          LET o == result.opportunities[i]
          IN  /\ o.exchange1 = "Binance"
              /\ o.exchange2 = "Delta"
              /\ reportedRate("Binance", o.original_symbol1) = MaxRate
              /\ reportedRate("Delta", o.original_symbol2) = MaxRate * 100
              /\ o.rate2 = MaxRate
              /\ o.diff = 0

\* the exchange pair of the opportunity at position i
pairAt(i) == {result.opportunities[i].exchange1, result.opportunities[i].exchange2}

\* C18: for a symbol carried by k exchanges every unordered pair of them
\* is examined exactly once, adjacent in the exchange list or not: the
\* opportunities of the symbol are exactly its pairs whose difference is
\* at least the threshold, each once; a symbol on one exchange has none.
C18_AllPairs ==
    pc = "done" =>
        LET data == lastData
        IN  /\ \A i \in 1..Len(result.opportunities) :
                  result.opportunities[i].symbol \in {ETHUSDT, BTCUSDT}
            /\ \A sym \in {ETHUSDT, BTCUSDT} :
                  LET on == Carriers(data, sym)
                      hits == ReportedFor(sym)
                      rate(ex) == Get(data[ex], sym).rate
                      due == {p \in SUBSET on :
                                 /\ Cardinality(p) = 2
                                 /\ \A a, b \in p :
                                       Abs(rate(a) - rate(b)) >= result.threshold_raw
                                           \/ a = b}
                  IN  /\ {pairAt(i) : i \in hits} = due
                      /\ Cardinality(hits) = Cardinality(due)
                      /\ result.threshold_raw = 0 =>
                            2 * Cardinality(hits)
                                = Cardinality(on) * (Cardinality(on) - 1)
                      /\ Cardinality(on) < 2 => hits = {}

\* ETH on four exchanges gives six opportunities, one of them for the
\* first and the last exchange; BTC on one exchange gives none
C18_Witness ==
    /\ pc = "done"
    /\ LET data == lastData
       IN  /\ Cardinality(Carriers(data, ETHUSDT)) = 4
           /\ Cardinality(Carriers(data, BTCUSDT)) = 1
    /\ Cardinality(ReportedFor(ETHUSDT)) = 6
    /\ ReportedFor(BTCUSDT) = {}
    /\ \E i \in ReportedFor(ETHUSDT) : pairAt(i) = {"Binance", "Delta"}

\* C28: no two opportunities of a ScanResult have the same symbol and the
\* same unordered exchange pair; the two exchanges of an opportunity
\* differ, its short and long exchange differ, and they are its two
\* exchanges, with equal rates as well.
C28_NoDuplicatePairs ==
    pc = "done" =>
        /\ \A i \in 1..Len(result.opportunities) :
              LET o == result.opportunities[i]
              IN  /\ o.exchange1 # o.exchange2
                  /\ o.short_exchange # o.long_exchange
                  /\ {o.short_exchange, o.long_exchange} = pairAt(i)
        /\ \A i, j \in 1..Len(result.opportunities) :
              (/\ i # j
               /\ result.opportunities[i].symbol = result.opportunities[j].symbol)
                  => pairAt(i) # pairAt(j)

\* two exchanges with the same rate reported at threshold 0, and the same
\* pair reported for the other symbol
C28_Witness ==
    /\ pc = "done"
    /\ \E i, j \in 1..Len(result.opportunities) :
          LET o == result.opportunities[i]
          IN  /\ o.rate1 = o.rate2
              /\ o.diff = 0
              /\ o.short_exchange = o.exchange2
              /\ o.long_exchange = o.exchange1
              /\ i # j
              /\ pairAt(i) = pairAt(j)
              /\ result.opportunities[j].symbol # o.symbol

\* C23: a feed adapter keeps its failures to itself: when its request
\* times out, fails, is answered with an error status or with a body it
\* cannot read, the adapter does not throw but returns an outcome that
\* differs from that of a successful fetch without entries.
C23_AdapterContainsFailure ==
    \A ex \in ExchangeNames :
        (Settled(ex) /\ market[ex].kind # "ok") =>
            /\ adapter[ex].status = "fulfilled"
            /\ adapter[ex] # load(ex, Listing(ex, NotListed, NotListed))

\* C25: a scan in which a feed timed out still returns a result, and it
\* returns once every adapter has settled, not before: the timeout is the
\* failure of its own adapter alone.
C25_TimeoutsIndependent ==
    (\E ex \in ExchangeNames : Settled(ex) /\ market[ex].kind = "timeout") =>
        /\ pc # "thrown"
        /\ response # 500
        /\ (\A ex \in ExchangeNames : Settled(ex)) => pc = "done"
        /\ pc = "done" =>
              \A ex \in ExchangeNames :
                  market[ex].kind = "ok" =>
                      result.exchange_counts[ex] = Len(market[ex].records)

---------------------------------------------------------------------------
(* executeTrade(): credentials, the two order adapters, the combined result *)

TradeExchanges == {"CoinSwitch", "Delta", "CoinDCX"}
\* an exchange the trading build has no order adapter for
UnknownExchange == "Binance"


\* the key and the secret of ex are both set in process.env
hasKeys(e, ex) == e[ex].key /\ e[ex].secret # "unset"

\* keyCheck[ex]; undefined, so false, for any other name
keyCheck(e, ex) == ex \in TradeExchanges /\ hasKeys(e, ex)

\* the check that looks at the short leg only
validationErrorShortOnly(r, e) ==
    IF ~keyCheck(e, r.short_exchange)
    THEN <<r.short_exchange, " API keys not configured">>
    ELSE Undefined

\* the error executeTrade returns before placing anything, if any
validationError(r, e) ==
    IF ~keyCheck(e, r.short_exchange)
    THEN <<r.short_exchange, " API keys not configured">>
    ELSE IF ~keyCheck(e, r.long_exchange)
    THEN <<r.long_exchange, " API keys not configured">>
    ELSE Undefined

\* the side an order adapter is called with, in the exchange's spelling
sideFor(exchange, side) ==
    IF exchange = "CoinSwitch"
    THEN (IF side \in {"BUY", "buy"} THEN "BUY" ELSE "SELL")
    ELSE (IF side \in {"BUY", "buy"} THEN "buy" ELSE "sell")

\* the side an OrderResult reports
legOf(side) == IF side \in {"SELL", "sell"} THEN "short" ELSE "long"

\* the price of an OrderResult that has none
NoPrice == 0 - 2000000

FailedOrder(exchange, symbol, side, quantity, error) ==
    [exchange |-> exchange, status |-> "failed", symbol |-> symbol,
     side |-> side, quantity |-> quantity, order_id |-> Undefined,
     price |-> NoPrice, error |-> error]

PlacedOrder(exchange, symbol, side, quantity) ==
    [exchange |-> exchange, status |-> "placed", symbol |-> symbol,
     side |-> side, quantity |-> quantity, order_id |-> <<"order id">>,
     price |-> 0, error |-> Undefined]

\* how the request of an order adapter is authenticated: the headers
\* builder throws ("throws"), signs, signs with an empty signature (the
\* CoinSwitch seed does not decode to 32 bytes) or sends no credentials
authOf(exchange, e) ==
    CASE exchange = "CoinSwitch" ->
            IF ~hasKeys(e, exchange) THEN "throws"
            ELSE IF e[exchange].secret = "malformed" THEN "empty signature"
            ELSE "signed"
      [] exchange = "CoinDCX" ->
            IF ~hasKeys(e, exchange) THEN "throws" ELSE "signed"
      [] exchange = "Delta" ->
            IF ~hasKeys(e, exchange) THEN "none" ELSE "signed"

\* placeOrder(exchange, symbol, side) up to its first await: the requests
\* it sends (one or none) and the promise it returns
placeOrder(exchange, symbol, side, r, e) ==
    IF exchange \notin TradeExchanges
    THEN [sent |-> <<>>,
          promise |-> Fulfilled(FailedOrder(exchange, symbol, "short", r.quantity,
                                            <<"Unknown exchange: ", exchange>>))]
    ELSE IF authOf(exchange, e) = "throws"
    THEN [sent |-> <<>>,
          promise |-> Fulfilled(FailedOrder(exchange, symbol,
                                            legOf(sideFor(exchange, side)), r.quantity,
                                            <<exchange, " API keys not configured">>))]
    ELSE [sent |-> << [exchange |-> exchange, symbol |-> symbol,
                       side |-> sideFor(exchange, side), quantity |-> r.quantity,
                       leverage |-> r.leverage, auth |-> authOf(exchange, e)] >>,
          promise |-> [status |-> "pending",
                       order |-> [exchange |-> exchange, symbol |-> symbol,
                                  side |-> sideFor(exchange, side),
                                  quantity |-> r.quantity,
                                  leverage |-> r.leverage,
                                  auth |-> authOf(exchange, e)]]]

\* what an order request can be answered with
OrderOutcomes == {"ok", "http", "network", "garbage"}

\* the OrderResult an order adapter resolves to once its request ended
orderResult(order, outcome) ==
    IF outcome = "ok"
    THEN PlacedOrder(order.exchange, order.symbol, legOf(order.side), order.quantity)
    ELSE FailedOrder(order.exchange, order.symbol, legOf(order.side), order.quantity,
                     <<outcome>>)

\* success when either leg did not fail
bothSuccessEither(shortResult, longResult) ==
    shortResult.status # "failed" \/ longResult.status # "failed"

bothSuccess(shortResult, longResult) ==
    shortResult.status # "failed" /\ longResult.status # "failed"

\* only the first failed leg reported
combinedErrorFirstOnly(r, shortResult, longResult) ==
    IF shortResult.status = "failed"
    THEN <<"Short (", r.short_exchange, "): ">> \o shortResult.error
    ELSE <<"Long (", r.long_exchange, "): ">> \o longResult.error

\* the labels of the two legs swapped
combinedErrorSwapped(r, shortResult, longResult) ==
    LET short == IF shortResult.status = "failed"
                 THEN <<"Long (", r.short_exchange, "): ">> \o shortResult.error
                 ELSE <<>>
        long == IF longResult.status = "failed"
                THEN <<"Short (", r.long_exchange, "): ">> \o longResult.error
                ELSE <<>>
    IN  IF short # <<>> /\ long # <<>> THEN short \o <<" | ">> \o long
        ELSE short \o long

\* [short part, long part].filter(Boolean).join(" | ")
combinedError(r, shortResult, longResult) ==
    LET short == IF shortResult.status = "failed"
                 THEN <<"Short (", r.short_exchange, "): ">> \o shortResult.error
                 ELSE <<>>
        long == IF longResult.status = "failed"
                THEN <<"Long (", r.long_exchange, "): ">> \o longResult.error
                ELSE <<>>
    IN  IF short # <<>> /\ long # <<>> THEN short \o <<" | ">> \o long
        ELSE short \o long

\* success decided by the short leg alone
TradeResultShortOnly(r, shortResult, longResult) ==
    [kind |-> "trade",
     success |-> shortResult.status # "failed",
     short_order |-> shortResult,
     long_order |-> longResult,
     error |-> IF shortResult.status # "failed" THEN Undefined
               ELSE combinedError(r, shortResult, longResult)]

TradeResult(r, shortResult, longResult) ==
    [kind |-> "trade",
     success |-> bothSuccess(shortResult, longResult),
     short_order |-> shortResult,
     long_order |-> longResult,
     error |-> IF bothSuccess(shortResult, longResult) THEN Undefined
               ELSE combinedError(r, shortResult, longResult)]

\* short_order, long_order of a TradeResult that has none
NoOrder == [status |-> "undefined"]

Refused(error) ==
    [kind |-> "trade", success |-> FALSE, short_order |-> NoOrder,
     long_order |-> NoOrder, error |-> error]

\* the status the route answers a TradeResult with
statusOf(how, res) == IF how # "route" THEN 0 ELSE IF res.success THEN 200 ELSE 500

---------------------------------------------------------------------------
(* POST /api/trade and executeTrade() *)

Quantities == (0 - 1) .. MaxQuantity

\* a request for the ETH perpetual; named: original_symbol_long is given
TradeRequest(short, long, quantity, leverage, named) ==
    [symbol |-> ETHUSDT,
     short_exchange |-> short,
     long_exchange |-> long,
     original_symbol_short |-> EthOn(short),
     original_symbol_long |-> IF named THEN EthOn(long) ELSE <<>>,
     quantity |-> quantity,
     leverage |-> leverage]

\* per exchange: is the API key set, and is the secret unset, set to
\* something that is no 32-byte hex seed, or valid
Credentials(ex) ==
    {[key |-> FALSE, secret |-> "unset"], [key |-> TRUE, secret |-> "unset"],
     [key |-> TRUE, secret |-> "valid"]}
    \cup (IF ex = "CoinSwitch" THEN {[key |-> TRUE, secret |-> "malformed"]} ELSE {})

InitTrade ==
    /\ ScanIdle
    /\ TradeIdle
    /\ NormIdle
    /\ market = [ex \in ExchangeNames |-> Listing(ex, NotListed, NotListed)]
    /\ \E e \in [TradeExchanges -> UNION {Credentials(ex) : ex \in TradeExchanges}] :
          /\ \A ex \in TradeExchanges : e[ex] \in Credentials(ex)
          /\ env = e

\* the short leg alone is placed at first
launchShortFirst(r, e) ==
    [short |-> placeOrder(r.short_exchange, r.original_symbol_short, "SELL", r, e),
     long |-> [sent |-> <<>>, promise |-> NotStarted]]

\* Promise.all([placeOrder(short...), placeOrder(long...)]): both adapters
\* are called, each up to its fetch, before anything is awaited
launch(r, e) ==
    [short |-> placeOrder(r.short_exchange, r.original_symbol_short, "SELL", r, e),
     long |-> placeOrder(r.long_exchange, r.original_symbol_long, "BUY", r, e)]

BothFulfilled(l) == l.short.status = "fulfilled" /\ l.long.status = "fulfilled"

\* executeTrade(r), up to its return or its await
Begin(r, how) ==
    /\ req' = r
    /\ via' = how
    /\ IF validationError(r, env) # Undefined
       THEN /\ tradeResult' = Refused(validationError(r, env))
            /\ tradeStatus' = statusOf(how, Refused(validationError(r, env)))
            /\ tpc' = "done"
            /\ UNCHANGED <<legs, orders>>
       ELSE LET placed == launch(r, env)
                started == [short |-> placed.short.promise,
                            long |-> placed.long.promise]
            IN  /\ orders' = orders \o placed.short.sent \o placed.long.sent
                /\ legs' = started
                /\ IF BothFulfilled(started)
                   THEN /\ tradeResult' =
                               TradeResult(r, started.short.value, started.long.value)
                        /\ tradeStatus' = statusOf(how, tradeResult')
                        /\ tpc' = "done"
                   ELSE /\ tpc' = "executing"
                        /\ UNCHANGED <<tradeResult, tradeStatus>>

\* the route's own checks of the body
missingParameters(body) ==
    \/ body.symbol = <<>>
    \/ body.short_exchange = ""
    \/ body.long_exchange = ""
    \/ body.original_symbol_short = <<>>
    \/ body.original_symbol_long = <<>>
    \/ body.quantity = 0
    \/ body.leverage = 0

notPositive(body) == body.quantity <= 0 \/ body.leverage <= 0

\* POST /api/trade
PostTrade(body) ==
    /\ tpc = "idle"
    /\ IF missingParameters(body) \/ notPositive(body)
       THEN /\ req' = body
            /\ via' = "route"
            /\ tradeStatus' = 400
            /\ tpc' = "refused"
            /\ UNCHANGED <<legs, orders, tradeResult>>
       ELSE Begin(body, "route")
    /\ UNCHANGED env
    /\ UNCHANGED <<scanVars, normVars>>

\* executeTrade called by any other caller
ExecuteTrade(r) ==
    /\ tpc = "idle"
    /\ Begin(r, "direct")
    /\ UNCHANGED env
    /\ UNCHANGED <<scanVars, normVars>>

\* the order request of a leg ends and its adapter resolves; with both
\* resolved executeTrade returns
LegSettle(leg, outcome) ==
    /\ tpc = "executing"
    /\ legs[leg].status = "pending"
    /\ LET after == [legs EXCEPT
                        ![leg] = Fulfilled(orderResult(legs[leg].order, outcome))]
       IN  /\ legs' = after
           /\ IF BothFulfilled(after)
              THEN /\ tradeResult' =
                          TradeResult(req, after.short.value, after.long.value)
                   /\ tradeStatus' = statusOf(via, tradeResult')
                   /\ tpc' = "done"
              ELSE UNCHANGED <<tradeResult, tradeStatus, tpc>>
    /\ UNCHANGED <<env, via, req, orders>>
    /\ UNCHANGED <<scanVars, normVars>>

Requests ==
    {TradeRequest(short, long, quantity, leverage, named) :
        short \in TradeExchanges \cup {UnknownExchange},
        long \in TradeExchanges \cup {UnknownExchange},
        quantity \in Quantities, leverage \in Quantities, named \in BOOLEAN}

NextTrade ==
    \/ \E body \in Requests : PostTrade(body)
    \/ \E r \in Requests : ExecuteTrade(r)
    \/ \E leg \in {"short", "long"}, outcome \in OrderOutcomes : LegSettle(leg, outcome)

SpecTrade == InitTrade /\ [][NextTrade]_vars

\* every order request is answered in the end, with a response or an error
SpecTradeFair ==
    /\ SpecTrade
    /\ WF_vars(\E leg \in {"short", "long"}, outcome \in OrderOutcomes :
                  LegSettle(leg, outcome))

---------------------------------------------------------------------------
(* scan() of the trading build: CoinSwitch (authenticated), Delta, CoinDCX *)

NoRequest == [exchange |-> "none", auth |-> "none"]

\* a CoinSwitch request goes out although the key or the secret is missing
feedRequestAlways(ex, e) ==
    [exchange |-> ex, auth |-> IF ex = "CoinSwitch" THEN "signed" ELSE "none"]

\* the request a feed adapter sends: loadCoinSwitchFunding returns {}
\* without one when the key is missing or getCoinSwitchHeaders throws, and
\* signs otherwise; the other two feeds are public
feedRequest(ex, e) ==
    IF ex = "CoinSwitch"
    THEN (IF ~e[ex].key \/ authOf(ex, e) = "throws" THEN NoRequest
          ELSE [exchange |-> ex, auth |-> authOf(ex, e)])
    ELSE [exchange |-> ex, auth |-> "none"]

RECURSIVE coinSwitchEntries(_, _)
coinSwitchEntries(records, funding) ==
    IF records = <<>> THEN funding
    ELSE LET item == Head(records)
         IN  IF ~item.hasRate \/ item.symbol \in {<<>>, Undefined}
             THEN coinSwitchEntries(Tail(records), funding)
             ELSE coinSwitchEntries(Tail(records),
                     Put(funding, item.symbol,
                         FundingEntry(item.rate, item.next, item.price,
                                      item.symbol)))

\* every adapter of this build catches its failures and resolves to {}
loadCoinSwitchFunding(outcome) ==
    IF outcome.kind # "ok" THEN Fulfilled(EmptyObj)
    ELSE Fulfilled(coinSwitchEntries(outcome.records, EmptyObj))

loadDeltaFunding_002(outcome) ==
    IF outcome.kind # "ok" THEN Fulfilled(EmptyObj)
    ELSE Fulfilled(deltaEntries(outcome.records, EmptyObj))

loadCoinDCXFunding_002(outcome) ==
    IF outcome.kind # "ok" THEN Fulfilled(EmptyObj)
    ELSE Fulfilled(coindcxEntries(outcome.records, EmptyObj))

load_002(ex, outcome) ==
    CASE ex = "CoinSwitch" -> loadCoinSwitchFunding(outcome)
      [] ex = "Delta"      -> loadDeltaFunding_002(outcome)
      [] ex = "CoinDCX"    -> loadCoinDCXFunding_002(outcome)

\* connected as soon as the promise is fulfilled
exchangeStatusFulfilled(ex, settled, e) ==
    [connected |-> settled.status = "fulfilled",
     error |-> IF settled.status = "rejected" THEN "rejected"
               ELSE IF ex = "CoinSwitch" /\ ~e[ex].key THEN "API key not configured"
               ELSE IF Len(settled.value) = 0 THEN "No data returned"
               ELSE "undefined"]

\* exchangeStatus[ex], from the settled promise of the adapter
exchangeStatus(ex, settled, e) ==
    LET value == IF settled.status = "fulfilled" THEN settled.value ELSE EmptyObj
    IN  [connected |-> settled.status = "fulfilled" /\ Len(value) > 0,
         error |-> IF settled.status = "rejected" THEN "rejected"
                   ELSE IF ex = "CoinSwitch" /\ ~e[ex].key
                   THEN "API key not configured"
                   ELSE IF Len(value) = 0 THEN "No data returned"
                   ELSE "undefined"]

RECURSIVE normalisedMap_002(_, _, _)
normalisedMap_002(funding, ex, acc) ==
    IF funding = <<>> THEN acc
    ELSE LET rawSym == Head(funding)[1]
             data == Head(funding)[2]
             norm == normalizeSymbol_002(rawSym, ex)
         IN  IF norm # Null /\ norm # <<>>
             THEN normalisedMap_002(Tail(funding), ex, Put(acc, norm, data))
             ELSE normalisedMap_002(Tail(funding), ex, acc)

exchangesList_002 == <<"CoinSwitch", "Delta", "CoinDCX">>

\* what scan returns once Promise.allSettled resolved
ScanResult_002(settled, threshold, e) ==
    LET valueOf(ex) == IF settled[ex].status = "fulfilled"
                       THEN settled[ex].value ELSE EmptyObj
        exchangeData ==
            [CoinSwitch |-> normalisedMap_002(valueOf("CoinSwitch"), "CoinSwitch",
                                              EmptyObj),
             Delta      |-> normalisedMap_002(valueOf("Delta"), "Delta", EmptyObj),
             CoinDCX    |-> normalisedMap_002(valueOf("CoinDCX"), "CoinDCX", EmptyObj)]
        allSymbols == allSymbolsOf(exchangeData, exchangesList_002)
        opportunities ==
            sortOpportunities(
                collect(sortedSymbols(allSymbols), exchangeData, exchangesList_002,
                        threshold))
    IN  [kind |-> "result",
         threshold_raw |-> threshold,
         exchange_counts |-> [CoinSwitch |-> Len(exchangeData["CoinSwitch"]),
                              Delta |-> Len(exchangeData["Delta"]),
                              CoinDCX |-> Len(exchangeData["CoinDCX"])],
         total_symbols |-> Cardinality(allSymbols),
         opportunities |-> opportunities,
         count |-> Len(opportunities),
         exchange_status |->
             [CoinSwitch |-> exchangeStatus("CoinSwitch", settled["CoinSwitch"], e),
              Delta      |-> exchangeStatus("Delta", settled["Delta"], e),
              CoinDCX    |-> exchangeStatus("CoinDCX", settled["CoinDCX"], e)]]

\* what a feed request can be answered with
FeedChoices == {"timeout", "http", "empty", "low", "high"}

\* CoinSwitch answers a request with an empty signature with an HTTP error
answerTo(request, choice) ==
    IF request.auth = "empty signature" THEN Failed("http")
    ELSE Outcome(request.exchange, choice)

Init_002 ==
    /\ pc = "idle"
    /\ minDiff = 0
    /\ includeDelta = TRUE
    /\ adapter = [ex \in TradeExchanges |-> NotStarted]
    /\ market = [ex \in TradeExchanges |-> NotStarted]
    /\ result = NoResult
    /\ previous = NoResult
    /\ response = 0
    /\ feeds = <<>>
    /\ TradeIdle
    /\ NormIdle
    /\ \E e \in [TradeExchanges -> UNION {Credentials(ex) : ex \in TradeExchanges}] :
          /\ \A ex \in TradeExchanges : e[ex] \in Credentials(ex)
          /\ env = e

\* scan(t): the three adapters are called, each runs up to its fetch or
\* returns at once
StartScan_002(t) ==
    /\ pc = "idle"
    /\ tpc = "idle"
    /\ pc' = "awaiting"
    /\ minDiff' = t
    /\ adapter' = [ex \in TradeExchanges |->
                      IF feedRequest(ex, env) = NoRequest THEN Fulfilled(EmptyObj)
                      ELSE [status |-> "pending", request |-> feedRequest(ex, env)]]
    /\ feeds' = feeds \o SelectSeq(<<feedRequest("CoinSwitch", env),
                                     feedRequest("Delta", env),
                                     feedRequest("CoinDCX", env)>>,
                                   LAMBDA request : request # NoRequest)
    /\ UNCHANGED <<includeDelta, market, result, previous, response>>
    /\ UNCHANGED <<tradeVars, normVars>>

\* the fetch of ex ends and its adapter resolves; Promise.allSettled
\* resolves once no adapter is pending, and scan runs on to its return
AdapterSettle_002(ex, choice) ==
    /\ pc = "awaiting"
    /\ adapter[ex].status = "pending"
    /\ LET answer == answerTo(adapter[ex].request, choice)
           after == [adapter EXCEPT ![ex] = load_002(ex, answer)]
       IN  /\ market' = [market EXCEPT ![ex] = answer]
           /\ adapter' = after
           /\ IF \A other \in TradeExchanges : after[other].status # "pending"
              THEN /\ pc' = "done"
                   /\ result' = ScanResult_002(after, minDiff, env)
                   /\ previous' = result
                   /\ response' = 200
              ELSE UNCHANGED <<pc, result, previous, response>>
    /\ UNCHANGED <<minDiff, includeDelta, feeds>>
    /\ UNCHANGED <<tradeVars, normVars>>

\* the trading build as deployed: a scan or a trade
Next_002 ==
    \/ \E t \in Thresholds : StartScan_002(t)
    \/ \E ex \in TradeExchanges, choice \in FeedChoices : AdapterSettle_002(ex, choice)
    \/ \E body \in Requests : pc = "idle" /\ PostTrade(body)
    \/ \E r \in Requests : pc = "idle" /\ ExecuteTrade(r)
    \/ \E leg \in {"short", "long"}, outcome \in OrderOutcomes : LegSettle(leg, outcome)

Spec_002 == Init_002 /\ [][Next_002]_vars

---------------------------------------------------------------------------
(* scan() of either build over one feed response with defective records,
   colliding spellings and mark prices of every kind *)

\* the highest mark price of the model
MaxPrice == 2

\* parseFloat(x.markPrice || "0"): NaN for a price that is no number, 0 for
\* a price that is absent or zero, or a positive price
Prices == {NaN} \cup (0 .. MaxPrice)

ETH_USDT == <<"E","T","H","-","U","S","D","T">>

\* a second spelling of the ETH perpetual that the normaliser of either
\* build maps onto the same canonical symbol as EthOn(ex)
EthAlsoOn(ex) ==
    CASE ex \in {"CoinDCX", "Delta"} -> ETHUSDT
      [] OTHER                       -> ETH_USDT

FeedExchanges == ExchangeNames \cup TradeExchanges

\* a record is whole, has no rate field, or has no symbol field; CoinDCX
\* answers with an object keyed by the symbol, so that none can be missing
Defects(ex) ==
    IF ex = "CoinDCX" THEN {"good", "norate"} ELSE {"good", "norate", "nosymbol"}

FeedRecord(sym, defect, rate, price) ==
    RawRecord(IF defect = "nosymbol" THEN Undefined ELSE sym,
              defect # "norate", rate, 1, price, TRUE)

\* the response under study: ETH at the highest rate, BTC, and ETH again
\* under its second spelling at rate 0; the record at position bad (0: none)
\* has the defect
StudiedResponse(ex, bad, defect, p1, p3) ==
    LET at(i) == IF i = bad THEN defect ELSE "good"
    IN  Answered(<<FeedRecord(EthOn(ex), at(1), Reported(ex, MaxRate), p1),
                   FeedRecord(BtcOn(ex), at(2), Reported(ex, 1), 1),
                   FeedRecord(EthAlsoOn(ex), at(3), Reported(ex, 0), p3)>>)

\* the response of every other exchange: ETH at rate 0.001 and price q
PlainResponse(ex, q) ==
    Answered(<<RawRecord(EthOn(ex), TRUE, Reported(ex, 1), 1, q, TRUE)>>)

ValidEnv == [ex \in TradeExchanges |-> [key |-> TRUE, secret |-> "valid"]]

InitFeed ==
    /\ ScanIdle
    /\ TradeIdle
    /\ NormIdle
    /\ env = ValidEnv
    /\ \E studied \in FeedExchanges, bad \in 0..3,
          defect \in {"norate", "nosymbol"}, p1 \in Prices, p3 \in Prices,
          q \in {0, MaxPrice} :
          /\ defect \in Defects(studied)
          /\ bad = 0 => defect = "norate"
          /\ market = [ex \in FeedExchanges |->
                          IF ex = studied
                          THEN StudiedResponse(ex, bad, defect, p1, p3)
                          ELSE PlainResponse(ex, q)]

\* one whole scan(t) of src/lib/scanner.ts: Promise.all rejects when an
\* adapter does, and scan returns its result otherwise
FeedScan(t) ==
    /\ pc = "idle"
    /\ LET after == [Binance |-> load("Binance", market["Binance"]),
                     Bybit   |-> load("Bybit", market["Bybit"]),
                     CoinDCX |-> load("CoinDCX", market["CoinDCX"]),
                     Delta   |-> load("Delta", market["Delta"])]
       IN  /\ adapter' = after
           /\ IF \E ex \in ExchangeNames : after[ex].status = "rejected"
              THEN /\ pc' = "thrown"
                   /\ response' = 500
                   /\ UNCHANGED <<result, previous>>
              ELSE /\ pc' = "done"
                   /\ result' = ScanResult(values(after), t, TRUE)
                   /\ previous' = result
                   /\ response' = 200
    /\ minDiff' = t
    /\ includeDelta' = TRUE
    /\ UNCHANGED <<market, feeds>>
    /\ UNCHANGED <<tradeVars, normVars>>

\* one whole scan(t) of the trading build: the three requests go out, the
\* adapters resolve and the result is returned
FeedScan_002(t) ==
    /\ pc = "idle"
    /\ LET after == [CoinSwitch |-> load_002("CoinSwitch", market["CoinSwitch"]),
                     Delta      |-> load_002("Delta", market["Delta"]),
                     CoinDCX    |-> load_002("CoinDCX", market["CoinDCX"])]
       IN  /\ adapter' = after
           /\ result' = ScanResult_002(after, t, env)
    /\ \A ex \in TradeExchanges : feedRequest(ex, env) # NoRequest
    /\ feeds' = feeds \o <<feedRequest("CoinSwitch", env),
                           feedRequest("Delta", env),
                           feedRequest("CoinDCX", env)>>
    /\ previous' = result
    /\ pc' = "done"
    /\ minDiff' = t
    /\ response' = 200
    /\ UNCHANGED <<includeDelta, market>>
    /\ UNCHANGED <<tradeVars, normVars>>

NextFeed ==
    \/ \E t \in Thresholds : FeedScan(t)
    \/ \E t \in Thresholds : FeedScan_002(t)

SpecFeed == InitFeed /\ [][NextFeed]_vars

---------------------------------------------------------------------------
(* The dashboard: a scan of the trading build, then a trade confirmed on one
   of its opportunities *)

\* the raw symbols of the ETH and the BTC perpetual on the trading
\* exchanges; CoinSwitch lists ETH as ETH-USDT and has no BTC perpetual
RawEthOn(ex) == IF ex = "CoinSwitch" THEN ETH_USDT ELSE EthOn(ex)

TradedListing(ex, e, b) ==
    Answered(
        (IF e = NotListed THEN <<>>
         ELSE <<RawRecord(RawEthOn(ex), TRUE, Reported(ex, e), 1, 100, TRUE)>>)
        \o
        (IF b = NotListed \/ ex = "CoinSwitch" THEN <<>>
         ELSE <<RawRecord(BtcOn(ex), TRUE, Reported(ex, b), 1, 100, TRUE)>>))

\* the request body with the two raw symbols the wrong way round
confirmTradeSwapped(tradingOpp, positionSize, leverage) ==
    [symbol |-> tradingOpp.symbol,
     short_exchange |-> tradingOpp.short_exchange,
     long_exchange |-> tradingOpp.long_exchange,
     original_symbol_short |->
         IF tradingOpp.short_exchange = tradingOpp.exchange1
         THEN tradingOpp.original_symbol2 ELSE tradingOpp.original_symbol1,
     original_symbol_long |->
         IF tradingOpp.long_exchange = tradingOpp.exchange1
         THEN tradingOpp.original_symbol2 ELSE tradingOpp.original_symbol1,
     quantity |-> positionSize,
     leverage |-> leverage]

\* the body confirmTrade posts to /api/trade for the opportunity chosen
confirmTrade(tradingOpp, positionSize, leverage) ==
    [symbol |-> tradingOpp.symbol,
     short_exchange |-> tradingOpp.short_exchange,
     long_exchange |-> tradingOpp.long_exchange,
     original_symbol_short |->
         IF tradingOpp.short_exchange = tradingOpp.exchange1
         THEN tradingOpp.original_symbol1 ELSE tradingOpp.original_symbol2,
     original_symbol_long |->
         IF tradingOpp.long_exchange = tradingOpp.exchange1
         THEN tradingOpp.original_symbol1 ELSE tradingOpp.original_symbol2,
     quantity |-> positionSize,
     leverage |-> leverage]

InitConfirm ==
    /\ ScanIdle
    /\ TradeIdle
    /\ NormIdle
    /\ env = ValidEnv
    /\ \E e \in [TradeExchanges -> {NotListed, 0, 1, MaxRate}],
          b \in [TradeExchanges -> {NotListed, 0, MaxRate}] :
          /\ b["CoinSwitch"] = NotListed
          /\ market = [ex \in TradeExchanges |-> TradedListing(ex, e[ex], b[ex])]

\* one whole scan(t) of the trading build, called for the dashboard
ConfirmScan(t) ==
    /\ tpc = "idle"
    /\ FeedScan_002(t)

\* the user picks the i-th opportunity of the table and confirms the trade
\* with a position size and a leverage that executeTrade let through
ConfirmTrade(i, positionSize, leverage) ==
    /\ pc = "done"
    /\ i \in 1..Len(result.opportunities)
    /\ PostTrade(confirmTrade(result.opportunities[i], positionSize, leverage))

\* the rows of the opportunities table
Table == IF pc = "done" THEN 1..Len(result.opportunities) ELSE {}

NextConfirm ==
    \/ \E t \in Thresholds : ConfirmScan(t)
    \/ \E i \in Table, positionSize \in 1..MaxQuantity, leverage \in 1..MaxQuantity :
          ConfirmTrade(i, positionSize, leverage)
    \/ \E leg \in {"short", "long"}, outcome \in {"ok", "http"} :
          LegSettle(leg, outcome)

SpecConfirm == InitConfirm /\ [][NextConfirm]_vars

---------------------------------------------------------------------------
(* Properties of executeTrade() *)

\* executeTrade has been called with req
Called == tpc \in {"executing", "done"}

\* the key and the secret of ex are in the environment
Configured(ex) ==
    /\ ex \in TradeExchanges
    /\ env[ex].key
    /\ env[ex].secret # "unset"

\* C3: with the credentials of the short or of the long exchange missing,
\* executeTrade returns success = false with an error that says "API keys
\* not configured", and no order request has gone to any exchange.
C3_MissingCredentials ==
    (Called /\ (~Configured(req.short_exchange) \/ ~Configured(req.long_exchange))) =>
        /\ tpc = "done"
        /\ tradeResult.success = FALSE
        /\ " API keys not configured" \in Range(tradeResult.error)
        /\ orders = <<>>

\* the short exchange has its keys, the long exchange is known and has not
C3_Witness ==
    /\ tpc = "done"
    /\ Configured(req.short_exchange)
    /\ req.long_exchange \in TradeExchanges
    /\ ~Configured(req.long_exchange)
    /\ tradeResult.success = FALSE
    /\ orders = <<>>

\* C4: a trade that passed the credentials check returns one OrderResult
\* per leg, and success is true exactly when neither has status "failed".
C4_SuccessIffNoLegFailed ==
    (tpc = "done" /\ Configured(req.short_exchange) /\ Configured(req.long_exchange)) =>
        /\ tradeResult.short_order # NoOrder
        /\ tradeResult.long_order # NoOrder
        /\ tradeResult.short_order.side = "short"
        /\ tradeResult.short_order.exchange = req.short_exchange
        /\ tradeResult.long_order.side = "long"
        /\ tradeResult.long_order.exchange = req.long_exchange
        /\ tradeResult.success <=>
              (/\ tradeResult.short_order.status # "failed"
               /\ tradeResult.long_order.status # "failed")

\* both legs placed and the trade reported successful
C4_Witness ==
    /\ tpc = "done"
    /\ tradeResult.success
    /\ tradeResult.short_order.status = "placed"
    /\ tradeResult.long_order.status = "placed"

\* the error of a TradeResult names the failed leg and not the other one
Blames(failing, other, exchange) ==
    /\ SubSeq(tradeResult.error, 1, 3) = <<failing, exchange, "): ">>
    /\ other \notin Range(tradeResult.error)

\* C5: when exactly one leg fails, success is false, the failing leg is
\* reported "failed", the other leg is reported as placed with its order
\* details untouched, and the combined error names the failing leg.
C5_OneLegFails ==
    (tpc = "done" /\ tradeResult.short_order # NoOrder) =>
        LET short == tradeResult.short_order
            long == tradeResult.long_order
        IN  /\ (short.status = "failed" /\ long.status # "failed") =>
                  /\ ~tradeResult.success
                  /\ long = PlacedOrder(req.long_exchange, req.original_symbol_long,
                                        "long", req.quantity)
                  /\ Blames("Short (", "Long (", req.short_exchange)
            /\ (long.status = "failed" /\ short.status # "failed") =>
                  /\ ~tradeResult.success
                  /\ short = PlacedOrder(req.short_exchange, req.original_symbol_short,
                                         "short", req.quantity)
                  /\ Blames("Long (", "Short (", req.long_exchange)

\* the short leg was rejected by its exchange, the long leg was placed
C5_Witness ==
    /\ tpc = "done"
    /\ tradeResult.short_order # NoOrder
    /\ tradeResult.short_order.status = "failed"
    /\ tradeResult.short_order.error = <<"http">>
    /\ tradeResult.long_order.status = "placed"
    /\ ~tradeResult.success

\* C6: a trade that passed the credentials check sends exactly two order
\* requests, the short leg's and the long leg's, both before the outcome
\* of either is known; no failure stops the other leg and nothing is sent
\* afterwards.
C6_TwoPlacements ==
    (Called /\ Configured(req.short_exchange) /\ Configured(req.long_exchange)) =>
        /\ Len(orders) = 2
        /\ orders[1].exchange = req.short_exchange
        /\ legOf(orders[1].side) = "short"
        /\ orders[2].exchange = req.long_exchange
        /\ legOf(orders[2].side) = "long"

\* both requests are out and neither has been answered
C6_Witness ==
    /\ tpc = "executing"
    /\ legs.short.status = "pending"
    /\ legs.long.status = "pending"
    /\ Len(orders) = 2

\* C7: executeTrade checks quantity and leverage itself: a request with
\* quantity <= 0 or leverage <= 0 sends no order.
C7_Revalidates ==
    (Called /\ (req.quantity <= 0 \/ req.leverage <= 0)) => orders = <<>>

\* part occurs in s as a run of consecutive elements
Contains(s, part) ==
    \E i \in 0..(Len(s) - Len(part)) : SubSeq(s, i + 1, i + Len(part)) = part

\* the leg-labelled message of a failed leg
ShortMessage == <<"Short (", req.short_exchange, "): ">> \o tradeResult.short_order.error
LongMessage == <<"Long (", req.long_exchange, "): ">> \o tradeResult.long_order.error

\* C19: a TradeResult has no error exactly when success is true;
\* otherwise the error contains "Short (<short exchange>): <the short
\* order's error>" exactly when the short leg failed, and the same with
\* "Long" for the long leg.
C19_CombinedError ==
    tpc = "done" =>
        /\ tradeResult.error = Undefined <=> tradeResult.success
        /\ \/ /\ tradeResult.short_order.status = "failed"
              /\ Contains(tradeResult.error, ShortMessage)
           \/ /\ tradeResult.short_order.status # "failed"
              /\ "Short (" \notin Range(tradeResult.error)
        /\ \/ /\ tradeResult.long_order.status = "failed"
              /\ Contains(tradeResult.error, LongMessage)
           \/ /\ tradeResult.long_order.status # "failed"
              /\ "Long (" \notin Range(tradeResult.error)

\* both legs failed, each for its own reason, and the error has both parts
C19_Witness ==
    /\ tpc = "done"
    /\ tradeResult.short_order.status = "failed"
    /\ tradeResult.long_order.status = "failed"
    /\ tradeResult.short_order.error # tradeResult.long_order.error
    /\ tradeResult.error = ShortMessage \o <<" | ">> \o LongMessage

\* the states of a trade
Executing == tpc = "executing"
Succeeded == tpc = "done" /\ tradeResult.success
PartiallyFailed ==
    tpc = "done" /\ ~tradeResult.success /\ tradeResult.short_order # NoOrder
Placed(order) == order.status \in {"placed", "filled"}

\* C20: a trade is validated, then executing, then succeeded or partially
\* failed.  Order requests go out only on entering Executing, which needs
\* the credentials check passed; the trade ends Succeeded exactly when both
\* legs are placed; a finished trade is never left, retried or added to;
\* and an executing trade whose two requests are answered does finish.
C20_TradeStateMachine ==
    /\ [](/\ Executing =>
                Configured(req.short_exchange) /\ Configured(req.long_exchange)
          /\ (Succeeded \/ PartiallyFailed) =>
                /\ Len(orders) = 2
                /\ Succeeded <=> (/\ Placed(tradeResult.short_order)
                                  /\ Placed(tradeResult.long_order))
          /\ (Executing /\ BothFulfilled(legs)) => FALSE)
    /\ [][/\ orders' # orders => (tpc = "idle" /\ tpc' = "executing")
          /\ tpc' = "executing" => tpc \in {"idle", "executing"}
          /\ tpc = "executing" => tpc' \in {"executing", "done"}
          /\ tpc = "done" => UNCHANGED <<tpc, tradeResult, orders, legs>>]_vars
    /\ (Executing ~> (Succeeded \/ PartiallyFailed))

\* a trade that came in by the route ended partially failed: the short
\* order is placed, the long order was rejected
C20_Witness ==
    /\ PartiallyFailed
    /\ via = "route"
    /\ tradeStatus = 500
    /\ Placed(tradeResult.short_order)
    /\ tradeResult.long_order.status = "failed"
    /\ Len(orders) = 2

---------------------------------------------------------------------------
(* Properties of the trading build: credentials and signing *)

\* the exchanges a feed request went to
Fetched == {feeds[i].exchange : i \in 1..Len(feeds)}

\* the adapter of ex resolved to a map that lists the ETH perpetual
ListsEth(ex) ==
    /\ adapter[ex].status = "fulfilled"
    /\ Has(adapter[ex].value, EthOn(ex))

\* C15: an exchange without its key and secret gets no authenticated
\* request, in a scan every exchange whose feed needs no missing
\* credentials is still fetched and the fetched feeds are matched, a trade
\* with such an exchange as a leg is refused before any order, and a trade
\* between two configured exchanges places its two orders.
C15_MissingCredentialsLocal ==
    /\ \A i \in 1..Len(feeds) :
          feeds[i].auth # "none" => Configured(feeds[i].exchange)
    /\ \A i \in 1..Len(orders) : Configured(orders[i].exchange)
    /\ pc # "idle" =>
          \A ex \in TradeExchanges :
              (ex # "CoinSwitch" \/ Configured(ex)) => ex \in Fetched
    /\ pc = "done" =>
          \A a, b \in TradeExchanges :
              (a # b /\ ListsEth(a) /\ ListsEth(b)) =>
                  ((\E i \in 1..Len(result.opportunities) : pairAt(i) = {a, b})
                   <=> Abs(Get(adapter[a].value, EthOn(a)).rate
                           - Get(adapter[b].value, EthOn(b)).rate) >= minDiff)
    /\ Called =>
          IF Configured(req.short_exchange) /\ Configured(req.long_exchange)
          THEN Len(orders) = 2
          ELSE tpc = "done" /\ ~tradeResult.success /\ orders = <<>>

\* a scan without CoinSwitch credentials: nothing went to CoinSwitch, and
\* Delta and CoinDCX were fetched and matched into an opportunity
C15_Witness ==
    /\ pc = "done"
    /\ ~Configured("CoinSwitch")
    /\ Fetched = {"Delta", "CoinDCX"}
    /\ result.count = 1
    /\ pairAt(1) = {"Delta", "CoinDCX"}
    /\ ~result.exchange_status["CoinSwitch"].connected

\* signing fails: the CoinSwitch secret does not decode to a 32-byte seed
SigningFails == env["CoinSwitch"].key /\ env["CoinSwitch"].secret = "malformed"

\* C16: when signing fails the exchange is unusable for the call: no feed
\* request and no order request goes out with a signature header made from
\* that secret, and the scan still completes.
C16_SigningFailureContained ==
    SigningFails =>
        /\ \A i \in 1..Len(feeds) : feeds[i].exchange # "CoinSwitch"
        /\ \A i \in 1..Len(orders) : orders[i].exchange # "CoinSwitch"
        /\ pc # "thrown"

\* what scan reports for CoinSwitch when its key or its secret is missing
MissingCredentialStatuses ==
    {exchangeStatus("CoinSwitch", Fulfilled(EmptyObj),
                    [env EXCEPT !["CoinSwitch"] = c]) :
        c \in {c \in Credentials("CoinSwitch") : ~(c.key /\ c.secret # "unset")}}

\* C17: what scan and executeTrade report for an exchange whose signing
\* failed is never what they report for it when its credentials are
\* missing.
C17_Distinguishable ==
    SigningFails =>
        /\ pc = "done" =>
              result.exchange_status["CoinSwitch"] \notin MissingCredentialStatuses
        /\ tpc = "done" =>
              tradeResult.error # <<"CoinSwitch", " API keys not configured">>


\* the feed of ex delivered at least one entry
Delivered(ex) ==
    /\ market[ex] # NotStarted
    /\ market[ex].kind = "ok"
    /\ market[ex].records # <<>>
    /\ adapter[ex].value # EmptyObj

\* C27: in a ScanResult an exchange is reported connected exactly when its
\* feed delivered at least one entry, and it has an error text exactly
\* when it is not connected.
C27_StatusConsistent ==
    pc = "done" =>
        \A ex \in TradeExchanges :
            LET status == result.exchange_status[ex]
            IN  /\ status.connected <=> Delivered(ex)
                /\ status.error # "undefined" <=> ~status.connected

\* one exchange connected without an error, one whose feed failed, and
\* CoinSwitch without its key
C27_Witness ==
    /\ pc = "done"
    /\ result.exchange_status["Delta"] = [connected |-> TRUE, error |-> "undefined"]
    /\ market["CoinDCX"].kind = "http"
    /\ result.exchange_status["CoinDCX"] =
           [connected |-> FALSE, error |-> "No data returned"]
    /\ result.exchange_status["CoinSwitch"] =
           [connected |-> FALSE, error |-> "API key not configured"]

---------------------------------------------------------------------------
(* Properties of scan() over defective, colliding and unpriced records *)

\* the build whose scan returned the result
LibResult == pc = "done" /\ DOMAIN adapter = ExchangeNames
normalizeOf(rawSym, ex) ==
    IF DOMAIN adapter = ExchangeNames THEN normalizeSymbol(rawSym, ex)
    ELSE normalizeSymbol_002(rawSym, ex)

\* the mark price the feed of ex gave for rawSym, as parseFloat read it
fedPrice(ex, rawSym) ==
    LET records == market[ex].records
    IN  records[CHOOSE i \in 1..Len(records) : records[i].symbol = rawSym].price

Unavailable(price) == IsNaN(price) \/ price <= 0

\* C21: an opportunity with a mark price that is zero or unavailable on
\* either side reports spread_pct = 0 and price_diff = 0; with both prices
\* positive, price_diff = |price1 - price2| and spread_pct =
\* price_diff / ((price1 + price2) / 2) * 100, rounded to four decimals
C21_SpreadOfPrices ==
    pc = "done" =>
        \A i \in 1..Len(result.opportunities) :
            LET o == result.opportunities[i]
                m1 == fedPrice(o.exchange1, o.original_symbol1)
                m2 == fedPrice(o.exchange2, o.original_symbol2)
            IN  IF Unavailable(m1) \/ Unavailable(m2)
                THEN o.spread_pct = 0 /\ o.price_diff = 0
                ELSE /\ o.price_diff = Abs(m1 - m2)
                     /\ o.spread_pct = roundDiv(2000000 * Abs(m1 - m2), m1 + m2)

\* the raw symbols of ex that its adapter kept and that normalise to sym,
\* in the order in which scan processes them
Spellings(ex, sym) ==
    SelectSeq(Keys(adapter[ex].value), LAMBDA k : normalizeOf(k, ex) = sym)

lastEntry(ex, sym) ==
    LET spellings == Spellings(ex, sym)
    IN  Get(adapter[ex].value, spellings[Len(spellings)])

CanonicalSymbols(ex) ==
    {normalizeOf(k, ex) : k \in Range(Keys(adapter[ex].value))} \ {Null, <<>>}

\* C22: of the raw symbols of one exchange that normalise to the same
\* canonical symbol the one processed last wins: every opportunity takes the
\* rate, the mark price and the original symbol of that exchange from this
\* one entry, and the exchange's count counts the canonical symbol once
C22_LastWriteWins ==
    pc = "done" =>
        /\ \A ex \in DOMAIN adapter :
              result.exchange_counts[ex] = Cardinality(CanonicalSymbols(ex))
        /\ \A i \in 1..Len(result.opportunities) :
              LET o == result.opportunities[i]
                  entry1 == lastEntry(o.exchange1, o.symbol)
                  entry2 == lastEntry(o.exchange2, o.symbol)
              IN  /\ o.rate1 = entry1.rate
                  /\ o.price1 = orZero(entry1.mark_price)
                  /\ o.original_symbol1 = entry1.original_symbol
                  /\ o.rate2 = entry2.rate
                  /\ o.price2 = orZero(entry2.mark_price)
                  /\ o.original_symbol2 = entry2.original_symbol

\* two spellings of ETH with different rates and prices collided on an
\* exchange, in either build, and an opportunity came out of the survivor
C22_Collision(ex) ==
    LET spellings == Spellings(ex, ETHUSDT)
        first == Get(adapter[ex].value, spellings[1])
        last == Get(adapter[ex].value, spellings[2])
    IN  /\ Len(spellings) = 2
        /\ first.rate # last.rate
        /\ first.mark_price # last.mark_price
        /\ \E i \in 1..Len(result.opportunities) :
              /\ ex \in {result.opportunities[i].exchange1,
                         result.opportunities[i].exchange2}
              /\ result.opportunities[i].symbol = ETHUSDT

C22_Witness ==
    /\ LibResult
    /\ \E ex \in ExchangeNames : C22_Collision(ex)

C22_Witness_002 ==
    /\ pc = "done"
    /\ DOMAIN adapter = TradeExchanges
    /\ C22_Collision("CoinSwitch")

\* the feed of ex holds a record that lacks its rate or its symbol
Defective(record) == ~record.hasRate \/ record.symbol = Undefined

\* C24: a record without a rate or without a symbol is skipped and does not
\* abort ingestion: the scan returns, the defective record leaves no entry
\* that reaches the exchange's map, and every whole record of the response
\* has its FundingEntry
C24_DefectiveRecordSkipped ==
    pc # "idle" =>
        /\ pc = "done"
        /\ \A ex \in DOMAIN adapter :
              /\ adapter[ex].status = "fulfilled"
              /\ \A i \in 1..Len(market[ex].records) :
                    LET record == market[ex].records[i]
                    IN  IF Defective(record)
                        THEN Has(adapter[ex].value, record.symbol)
                                 => normalizeOf(record.symbol, ex) = Null
                        ELSE /\ Has(adapter[ex].value, record.symbol)
                             /\ Get(adapter[ex].value, record.symbol).original_symbol
                                    = record.symbol
                             /\ Get(adapter[ex].value, record.symbol).mark_price
                                    = record.price

---------------------------------------------------------------------------
(* Properties of the symbols a trade is placed with *)

\* the raw symbols the feed of ex listed
ListedOn(ex) == {market[ex].records[k].symbol : k \in 1..Len(market[ex].records)}

\* rawSym is the symbol under which ex lists the canonical symbol sym
RawSymbolOf(rawSym, ex, sym) ==
    /\ rawSym \in ListedOn(ex)
    /\ normalizeSymbol_002(rawSym, ex) = sym

\* the order sent for a leg
ShortOrder == orders[CHOOSE k \in 1..Len(orders) : orders[k].side \in {"SELL", "sell"}]
LongOrder == orders[CHOOSE k \in 1..Len(orders) : orders[k].side \in {"BUY", "buy"}]

\* C26: each opportunity carries the raw symbol of exchange1 as
\* original_symbol1 and that of exchange2 as original_symbol2, each
\* normalising to its canonical symbol; the trade confirmed on an opportunity
\* sends the short exchange its own raw symbol and the long exchange its own
C26_RawSymbolsToTheirExchange ==
    /\ pc = "done" =>
          \A i \in 1..Len(result.opportunities) :
              LET o == result.opportunities[i]
              IN  /\ RawSymbolOf(o.original_symbol1, o.exchange1, o.symbol)
                  /\ RawSymbolOf(o.original_symbol2, o.exchange2, o.symbol)
    /\ (via = "route" /\ tpc \in {"executing", "done"}) =>
          /\ Len(orders) = 2
          /\ ShortOrder.exchange = req.short_exchange
          /\ LongOrder.exchange = req.long_exchange
          /\ RawSymbolOf(ShortOrder.symbol, req.short_exchange, req.symbol)
          /\ RawSymbolOf(LongOrder.symbol, req.long_exchange, req.symbol)
          /\ ShortOrder.symbol # req.symbol
          /\ LongOrder.symbol # req.symbol
          /\ ShortOrder.symbol # LongOrder.symbol

\* a trade went through on an opportunity whose short side is its second
\* exchange
C26_Witness ==
    /\ via = "route"
    /\ tpc = "done"
    /\ tradeResult.success
    /\ \E i \in 1..Len(result.opportunities) :
          LET o == result.opportunities[i]
          IN  /\ o.symbol = req.symbol
              /\ o.exchange2 = req.short_exchange
              /\ o.exchange1 = req.long_exchange
              /\ ShortOrder.symbol = o.original_symbol2

============================================================================
